---- MODULE Spec2Model ----
(***************************************************************************)
(* Construction scheduler: topological ordering, CPM baseline (forward and *)
(* backward pass) and greedy resource leveling of src/scheduling.py.       *)
(*                                                                         *)
(* Times are hours counted as integers.  Task ids are the integers         *)
(* 1..MaxTasks; a task list of length n holds the ids 1..n in list order,  *)
(* so an id above n is an id that is not in the list.  A task name is the  *)
(* rank of the name in string order.  The labels section and subsection    *)
(* are copied through unread and are left out of the records.              *)
(***************************************************************************)
EXTENDS Integers, Sequences, FiniteSets, TLC

MaxTasks == 3
MaxDur == 2
MaxCap == 2
MaxRuns == 2

None == "None"
UNSPEC == "UNSPEC"
\* duration_hours is an optional number: <<>> is None, <<d>> is the number d
NoHours == <<>>

VARIABLES
    tasks,                  \* the task list handed to both functions
    pool_by_category,       \* leveling mode
    capacity_by_category,   \* dict category -> int
    pc,                     \* position in compute_cpm_baseline / level_resources
    order,                  \* compute_cpm_baseline: topological order
    info,                   \* compute_cpm_baseline: id -> {duration, es, ef, ls, lf}
    proj_finish,            \* compute_cpm_baseline: project finish
    k,                      \* index of the next element of the running for loop
    level_order,            \* level_resources: ids in processing order
    schedule,               \* level_resources: id -> {start, finish, duration, ...}
    scheduled,              \* level_resources: pooled mode interval list
    code_busy_until,        \* level_resources: exact mode crew_code -> time
    est,                    \* level_resources: earliest start of the current task
    start,                  \* level_resources: start of the current task
    run,                    \* number of the scheduling request being served
    first                   \* what the first request returned

vars == <<tasks, pool_by_category, capacity_by_category, pc, order, info,
          proj_finish, k, level_order, schedule, scheduled, code_busy_until,
          est, start, run, first>>

inputs == <<tasks, pool_by_category, capacity_by_category>>
cpm_locals == <<order, info, proj_finish>>
level_locals == <<level_order, schedule, scheduled, code_busy_until, est, start>>

----------------------------------------------------------------------------
(* Helpers *)

Max(a, b) == IF a >= b THEN a ELSE b

Range(s) == {s[j] : j \in 1..Len(s)}

SetMax(S) == CHOOSE x \in S : \A y \in S : y <= x
SetMin(S) == CHOOSE x \in S : \A y \in S : x <= y

Reverse(s) == [j \in 1..Len(s) |-> s[Len(s) + 1 - j]]

\* every order in which a Python loop may visit the elements of a collection
Orderings(S) ==
    {p \in [1..Cardinality(S) -> S] : \A a, b \in 1..Cardinality(S) : p[a] = p[b] => a = b}

IdList(ts) == [j \in 1..Len(ts) |-> ts[j].id]

TaskIds(ts) == Range(IdList(ts))

\* tasks_by_id
TaskOf(ts, tid) == ts[CHOOSE j \in 1..Len(ts) : ts[j].id = tid]

\* deps = {t["id"]: set(t.get("dependencies", [])) for t in tasks}
DepsOf(ts) == [tid \in TaskIds(ts) |-> TaskOf(ts, tid).dependencies]

\* a conversion that imputes one hour for an unknown duration
DurationImputed(t) ==
    IF t.duration_hours = NoHours THEN 1 ELSE t.duration_hours[1]

\* float(t["duration_hours"] or 0.0): None and 0 both give 0
Duration(t) ==
    IF t.duration_hours = NoHours THEN 0
    ELSE IF t.duration_hours[1] = 0 THEN 0
    ELSE t.duration_hours[1]

----------------------------------------------------------------------------
(* topological_order: Kahn's algorithm with a FIFO queue *)

RECURSIVE Kahn(_, _, _, _, _)
Kahn(ts, q, ord, deps, indeg) ==
    IF q = <<>>
    THEN ord \o SelectSeq(IdList(ts), LAMBDA tid : indeg[tid] > 0 /\ tid \notin Range(ord))
    ELSE LET u == Head(q)
             hit == {v \in DOMAIN deps : u \in deps[v]}
             deps2 == [v \in DOMAIN deps |-> IF v \in hit THEN deps[v] \ {u} ELSE deps[v]]
             indeg2 == [v \in DOMAIN indeg |-> IF v \in hit THEN indeg[v] - 1 ELSE indeg[v]]
             ready == SelectSeq(IdList(ts), LAMBDA v : v \in hit /\ indeg2[v] = 0)
         IN  Kahn(ts, Tail(q) \o ready, Append(ord, u), deps2, indeg2)

\* a sorter that forgets the dependencies and returns the ids in list order
topological_order_listed(ts) == IdList(ts)

topological_order(ts) ==
    LET deps == DepsOf(ts)
        indeg == [tid \in TaskIds(ts) |-> Cardinality(deps[tid])]
        q == SelectSeq(IdList(ts), LAMBDA tid : indeg[tid] = 0)
    IN  Kahn(ts, q, <<>>, deps, indeg)

----------------------------------------------------------------------------
(* Inputs *)

Hours == {NoHours} \cup {<<d>> : d \in 0..MaxDur}

\* the list of n tasks with ids 1..n; names follow the list order and two
\* neighbours share a planned_day
TaskList(n, hours, crew, deps) ==
    [j \in 1..n |->
        [id |-> j,
         name |-> j,
         planned_day |-> (j + 1) \div 2,
         duration_hours |-> hours[j],
         crew_code |-> crew[j][1],
         crew_category |-> crew[j][2],
         dependencies |-> deps[j]]]

NoCrew == <<None, None>>

\* dependency sets without a self-dependency (an invariant of the data
\* model); they may form cycles and may name ids that are not in the list
Graphs(n) == {d \in [1..n -> SUBSET (1..MaxTasks)] : \A j \in 1..n : j \notin d[j]}

InList(deps) == \A t \in DOMAIN deps : deps[t] \subseteq DOMAIN deps

\* what is left of the tasks in `left` after taking away, again and again,
\* those with no dependency among the tasks left
RECURSIVE Peel(_, _)
Peel(deps, left) ==
    LET free == {t \in left : deps[t] \cap left = {}}
    IN  IF free = {} THEN left ELSE Peel(deps, left \ free)

IsAcyclic(deps) == Peel(deps, DOMAIN deps) = {}

NoRequestYet ==
    /\ pc = "request"
    /\ order = <<>>
    /\ info = <<>>
    /\ proj_finish = 0
    /\ k = 1
    /\ level_order = <<>>
    /\ schedule = <<>>
    /\ scheduled = <<>>
    /\ code_busy_until = <<>>
    /\ est = 0
    /\ start = 0
    /\ run = 1
    /\ first = <<>>

InitCPM ==
    /\ \E n \in 0..MaxTasks : \E d \in Graphs(n) : \E h \in [1..n -> Hours] :
         tasks = TaskList(n, h, [j \in 1..n |-> NoCrew], d)
    /\ pool_by_category = FALSE
    /\ capacity_by_category = <<>>
    /\ NoRequestYet

----------------------------------------------------------------------------
(* compute_cpm_baseline *)

HasKey(inf, tid, key) == tid \in DOMAIN inf /\ key \in DOMAIN inf[tid]

\* es = info[d]["ef"]: the last dependency visited wins
RECURSIVE EarlyStartLast(_, _, _)
EarlyStartLast(visit, inf, es) ==
    IF visit = <<>> THEN es
    ELSE EarlyStartLast(Tail(visit), inf, inf[Head(visit)].ef)

\* for d in deps[tid]: es = max(es, info[d]["ef"])
RECURSIVE EarlyStart(_, _, _)
EarlyStart(visit, inf, es) ==
    IF visit = <<>> THEN es
    ELSE EarlyStart(Tail(visit), inf, Max(es, inf[Head(visit)].ef))

\* a backward pass that takes the project finish for every task
LateFinishProject(tid, inf, deps, pf) == pf

\* succ_ls = [info[s]["ls"] for s in info if tid in deps.get(s, set()) and "ls" in info[s]]
\* lf = min(succ_ls) if succ_ls else proj_finish
LateFinish(tid, inf, deps, pf) ==
    LET succ_ls == {inf[s].ls : s \in {x \in DOMAIN inf :
                        /\ x \in DOMAIN deps
                        /\ tid \in deps[x]
                        /\ "ls" \in DOMAIN inf[x]}}
    IN  IF succ_ls # {} THEN SetMin(succ_ls) ELSE pf

\* lines 30-32
BaselineStart ==
    /\ pc = "request"
    /\ info' = [tid \in TaskIds(tasks) |-> [duration |-> Duration(TaskOf(tasks, tid))]]
    /\ order' = topological_order(tasks)
    /\ k' = 1
    /\ pc' = "forward"
    /\ UNCHANGED <<inputs, proj_finish, level_locals, run, first>>

\* one iteration of the forward pass; info[d]["ef"] raises KeyError when d is
\* not in the list or has not been given an ef yet
ForwardStep ==
    /\ pc = "forward"
    /\ k <= Len(order)
    /\ LET tid == order[k]
           deps == DepsOf(tasks)
       IN  IF \E d \in deps[tid] : ~HasKey(info, d, "ef")
           THEN /\ pc' = "raised"
                /\ UNCHANGED <<info, k>>
           ELSE /\ \E visit \in Orderings(deps[tid]) :
                     LET es == EarlyStart(visit, info, 0)
                     IN  info' = [info EXCEPT ![tid] =
                                    [duration |-> @.duration, es |-> es, ef |-> es + @.duration]]
                /\ k' = k + 1
                /\ pc' = pc
    /\ UNCHANGED <<inputs, order, proj_finish, level_locals, run, first>>

\* proj_finish = max((info[tid]["ef"] for tid in info), default=0.0); rev = reversed(order)
ProjectFinish ==
    /\ pc = "forward"
    /\ k > Len(order)
    /\ proj_finish' = IF DOMAIN info = {} THEN 0
                      ELSE SetMax({info[tid].ef : tid \in DOMAIN info})
    /\ k' = 1
    /\ pc' = "backward"
    /\ UNCHANGED <<inputs, order, info, level_locals, run, first>>

\* one iteration of the backward pass
BackwardStep ==
    /\ pc = "backward"
    /\ k <= Len(order)
    /\ LET tid == Reverse(order)[k]
           lf == LateFinish(tid, info, DepsOf(tasks), proj_finish)
           ls == lf - info[tid].duration
       IN  info' = [info EXCEPT ![tid] =
                      [duration |-> @.duration, es |-> @.es, ef |-> @.ef, ls |-> ls, lf |-> lf]]
    /\ k' = k + 1
    /\ UNCHANGED <<inputs, pc, order, proj_finish, level_locals, run, first>>

\* return info
ReturnBaseline ==
    /\ pc = "backward"
    /\ k > Len(order)
    /\ pc' = "baseline"
    /\ UNCHANGED <<inputs, cpm_locals, k, level_locals, run, first>>

NextCPM ==
    \/ BaselineStart
    \/ ForwardStep
    \/ ProjectFinish
    \/ BackwardStep
    \/ ReturnBaseline


----------------------------------------------------------------------------
(* level_resources *)

\* not (not t.get("crew_category") and not t.get("crew_code"))
HasResource(t) == t.crew_category # None \/ t.crew_code # None

\* t.get("crew_category") or "UNSPEC"
CategoryOf(t) == IF t.crew_category # None THEN t.crew_category ELSE UNSPEC

\* t.get("crew_code") or "UNSPEC"
CodeOf(t) == IF t.crew_code # None THEN t.crew_code ELSE UNSPEC

\* the capacity as configured, without the floor of 1
CapacityUnclamped(cap, cat) == IF cat \in DOMAIN cap THEN cap[cat] ELSE 1

\* max(1, int(capacity_by_category.get(cat, 1)))
CapacityOf(cap, cat) == Max(1, IF cat \in DOMAIN cap THEN cap[cat] ELSE 1)

\* code_busy_until[code] of a defaultdict(float)
ReadyAt(busy, code) == IF code \in DOMAIN busy THEN busy[code] ELSE 0

\* the key (es, planned_day, name) of list position a sorts before that of b;
\* sorted() is stable, so equal keys keep their list order
SortsBefore(ts, inf, a, b) ==
    LET ea == inf[ts[a].id].es
        eb == inf[ts[b].id].es
    IN  \/ ea < eb
        \/ ea = eb /\ ts[a].planned_day < ts[b].planned_day
        \/ ea = eb /\ ts[a].planned_day = ts[b].planned_day /\ ts[a].name < ts[b].name
        \/ ea = eb /\ ts[a].planned_day = ts[b].planned_day /\ ts[a].name = ts[b].name /\ a < b

\* sorted(tasks, key=lambda t: (base_info[t["id"]]["es"], t["planned_day"], t["name"]))
SortedTasks(ts, inf) ==
    [r \in 1..Len(ts) |->
        ts[CHOOSE a \in 1..Len(ts) :
              Cardinality({b \in 1..Len(ts) : SortsBefore(ts, inf, b, a)}) = r - 1].id]

\* est = <bound of dep>: the last dependency visited wins
RECURSIVE EarliestByDepsLast(_, _, _, _)
EarliestByDepsLast(visit, sched, inf, e) ==
    IF visit = <<>> THEN e
    ELSE LET dep == Head(visit)
             bound == IF dep \in DOMAIN sched THEN sched[dep].finish ELSE inf[dep].ef
         IN  EarliestByDepsLast(Tail(visit), sched, inf, bound)

\* a loop that takes the baseline ef of every dependency, scheduled or not
RECURSIVE EarliestByDepsBaseline(_, _, _, _)
EarliestByDepsBaseline(visit, sched, inf, e) ==
    IF visit = <<>> THEN e
    ELSE EarliestByDepsBaseline(Tail(visit), sched, inf, Max(e, inf[Head(visit)].ef))

\* for dep in t.get("dependencies", []): the finish of a scheduled dependency,
\* else the baseline ef of the dependency
RECURSIVE EarliestByDeps(_, _, _, _)
EarliestByDeps(visit, sched, inf, e) ==
    IF visit = <<>> THEN e
    ELSE LET dep == Head(visit)
             bound == IF dep \in DOMAIN sched THEN sched[dep].finish ELSE inf[dep].ef
         IN  EarliestByDeps(Tail(visit), sched, inf, Max(e, bound))

\* cnt of the intervals of the category that hold timepoint strictly inside
cat_active_at(recs, cat, timepoint) ==
    Cardinality({j \in 1..Len(recs) :
        /\ recs[j].cat = cat
        /\ recs[j].start < timepoint
        /\ timepoint < recs[j].finish})

\* finishes = [rec["finish"] for rec in scheduled if rec["cat"] == cat and rec["finish"] > start]
Finishes(recs, cat, st) ==
    {recs[j].finish : j \in {i \in 1..Len(recs) : recs[i].cat = cat /\ recs[i].finish > st}}

CurrentTask == TaskOf(tasks, level_order[k])

\* while dur > 0 and cat_active_at(start) >= cap
Searching ==
    /\ pc = "search"
    /\ Duration(CurrentTask) > 0
    /\ cat_active_at(scheduled, CategoryOf(CurrentTask), start)
          >= CapacityOf(capacity_by_category, CategoryOf(CurrentTask))

\* lines 68-77
LevelStart ==
    /\ pc = "baseline"
    /\ level_order' = SortedTasks(tasks, info)
    /\ schedule' = <<>>
    /\ scheduled' = <<>>
    /\ code_busy_until' = <<>>
    /\ k' = 1
    /\ pc' = "level"
    /\ UNCHANGED <<inputs, cpm_locals, est, start, run, first>>

\* lines 79-96 and 109-111: the earliest start by dependencies and the first
\* candidate start of the next task
PickTask ==
    /\ pc = "level"
    /\ k <= Len(level_order)
    /\ LET t == CurrentTask
       IN  IF \E dep \in t.dependencies : dep \notin DOMAIN schedule /\ ~HasKey(info, dep, "ef")
           THEN /\ pc' = "raised"
                /\ UNCHANGED <<est, start>>
           ELSE \E visit \in Orderings(t.dependencies) :
                  LET e == Max(EarliestByDeps(visit, schedule, info, 0), info[t.id].es)
                  IN  /\ est' = e
                      /\ start' = IF HasResource(t) /\ ~pool_by_category
                                  THEN Max(e, ReadyAt(code_busy_until, CodeOf(t)))
                                  ELSE e
                      /\ pc' = IF HasResource(t) /\ pool_by_category THEN "search" ELSE "place"
    /\ UNCHANGED <<inputs, cpm_locals, k, level_order, schedule, scheduled,
                   code_busy_until, run, first>>

\* lines 105-107: one iteration of the search for a feasible start
Advance ==
    /\ Searching
    /\ LET finishes == Finishes(scheduled, CategoryOf(CurrentTask), start)
       IN  start' = IF finishes # {} THEN SetMin(finishes) ELSE start
    /\ UNCHANGED <<inputs, cpm_locals, pc, k, level_order, schedule, scheduled,
                   code_busy_until, est, run, first>>

\* lines 113-128: the schedule entry and the resource bookkeeping
Place ==
    /\ pc = "place" \/ (pc = "search" /\ ~Searching)
    /\ LET t == CurrentTask
           dur == Duration(t)
           finish == start + dur
       IN  /\ schedule' = [tid \in DOMAIN schedule \cup {t.id} |->
                             IF tid = t.id
                             THEN [task |-> t.name, start |-> start, finish |-> finish,
                                   duration |-> dur, crew_code |-> t.crew_code,
                                   crew_category |-> t.crew_category]
                             ELSE schedule[tid]]
           /\ IF pool_by_category
              THEN /\ scheduled' = Append(scheduled,
                                     [cat |-> CategoryOf(t), start |-> start, finish |-> finish])
                   /\ UNCHANGED code_busy_until
              ELSE /\ code_busy_until' = [c \in DOMAIN code_busy_until \cup {CodeOf(t)} |->
                                            IF c = CodeOf(t) THEN finish ELSE code_busy_until[c]]
                   /\ UNCHANGED scheduled
    /\ k' = k + 1
    /\ pc' = "level"
    /\ UNCHANGED <<inputs, cpm_locals, level_order, est, start, run, first>>

\* return schedule
ReturnSchedule ==
    /\ pc = "level"
    /\ k > Len(level_order)
    /\ pc' = "done"
    /\ UNCHANGED <<inputs, cpm_locals, k, level_locals, run, first>>

\* the next scheduling request on the same inputs: both functions are called
\* again and build their results from scratch
Rerun ==
    /\ pc = "done"
    /\ run < MaxRuns
    /\ first' = IF run = 1 THEN [info |-> info, schedule |-> schedule] ELSE first
    /\ run' = run + 1
    /\ pc' = "request"
    /\ UNCHANGED <<inputs, cpm_locals, k, level_locals>>

Next ==
    \/ BaselineStart
    \/ ForwardStep
    \/ ProjectFinish
    \/ BackwardStep
    \/ ReturnBaseline
    \/ LevelStart
    \/ PickTask
    \/ Advance
    \/ Place
    \/ ReturnSchedule

NextRerun == Next \/ Rerun

----------------------------------------------------------------------------
(* Inputs of the leveling runs *)

\* (crew_code, crew_category): no crew, a code with its category, a category
\* alone, and a code alone that spells the fallback code
\* (crew_code, crew_category).  Exact mode reads of the category only whether
\* it is there: no crew, a code, a category alone, and a code that spells the
\* fallback code.
ExactCrews == {NoCrew, <<"C1", "A">>, <<None, "A">>, <<UNSPEC, None>>}

\* Pooled mode reads of the code only whether it is there: no crew, a
\* category, and a code alone.
PooledCrews == {NoCrew, <<"C1", "A">>, <<"C1", None>>}

LevelHours == {NoHours} \cup {<<d>> : d \in 1..MaxDur}

CapacityMaps == {<<>>} \cup {[c \in {"A"} |-> v] : v \in 0..MaxCap}

\* acyclic dependency sets that name tasks of the list only
Dags(n) == {d \in Graphs(n) : InList(d) /\ IsAcyclic(d)}

Init ==
    /\ \E n \in 1..MaxTasks : \E d \in Dags(n) : \E h \in [1..n -> LevelHours] :
         \/ /\ pool_by_category = FALSE
            /\ capacity_by_category = <<>>
            /\ \E c \in [1..n -> ExactCrews] : tasks = TaskList(n, h, c, d)
         \/ /\ pool_by_category = TRUE
            /\ capacity_by_category \in CapacityMaps
            /\ \E c \in [1..n -> PooledCrews] : tasks = TaskList(n, h, c, d)
    /\ NoRequestYet

\* the requests that are served twice
InitRerun ==
    /\ \E n \in 1..MaxTasks : \E d \in Dags(n) : \E h \in [1..n -> LevelHours] :
         \E c \in [1..n -> {NoCrew, <<"C1", "A">>}] : tasks = TaskList(n, h, c, d)
    /\ \/ pool_by_category = FALSE /\ capacity_by_category = <<>>
       \/ pool_by_category = TRUE /\ capacity_by_category \in {<<>>, [c \in {"A"} |-> MaxCap]}
    /\ NoRequestYet

Spec == Init /\ [][Next]_vars

SpecCPM == InitCPM /\ [][NextCPM]_vars

SpecRerun == InitRerun /\ [][NextRerun]_vars

----------------------------------------------------------------------------
(* Properties *)

Deps == DepsOf(tasks)

WellFormed == InList(Deps) /\ IsAcyclic(Deps)

PosIn(seq, x) == CHOOSE j \in 1..Len(seq) : seq[j] = x

Successors(t) == {s \in DOMAIN Deps : t \in Deps[s]}

BaselineKeys == {"duration", "es", "ef", "ls", "lf"}

\* the resource-bearing tasks of category cat whose scheduled interval holds
\* the instant x2 / 2 strictly inside
ActiveAt(cat, x2) ==
    {t \in DOMAIN schedule :
        /\ HasResource(TaskOf(tasks, t))
        /\ CategoryOf(TaskOf(tasks, t)) = cat
        /\ 2 * schedule[t].start < x2
        /\ x2 < 2 * schedule[t].finish}

Horizon == SetMax({0} \cup {schedule[t].finish : t \in DOMAIN schedule})

\* C1: in pooled mode the returned schedule never has, at any instant, more
\* than the (clamped) capacity of a category of resource-bearing tasks of that
\* category strictly active.
C1_PooledCapacityRespected ==
    (pc = "done" /\ pool_by_category) =>
        \A cat \in {"A", UNSPEC} : \A x2 \in 0..(2 * Horizon) :
            Cardinality(ActiveAt(cat, x2)) <= CapacityOf(capacity_by_category, cat)

\* C2: in the returned schedule every task starts at or after the finish of
\* each of its dependencies that is in the schedule.
C2_DependencyRespected ==
    pc = "done" =>
        \A t \in DOMAIN schedule : \A d \in Deps[t] \cap DOMAIN schedule :
            schedule[t].start >= schedule[d].finish

\* C3: in exact mode two distinct tasks with the same non-null crew_code have
\* intervals [start, finish) that do not overlap.
C3_ExactCodeExclusive ==
    (pc = "done" /\ ~pool_by_category) =>
        \A a, b \in DOMAIN schedule :
            (/\ a # b
             /\ TaskOf(tasks, a).crew_code # None
             /\ TaskOf(tasks, a).crew_code = TaskOf(tasks, b).crew_code)
            => \/ schedule[a].finish <= schedule[b].start
               \/ schedule[b].finish <= schedule[a].start

\* C4: with every dependency in the list, cycles or not, the baseline never
\* raises and returns es, ef, ls and lf for every task, and the schedule has an
\* entry for every task.
C4_CyclesTolerated ==
    InList(Deps) =>
        /\ pc # "raised"
        /\ pc = "baseline" =>
             \A t \in TaskIds(tasks) : t \in DOMAIN info /\ DOMAIN info[t] = BaselineKeys
        /\ pc = "done" => DOMAIN schedule = TaskIds(tasks)

\* C5: a dependency on an id that is not in the list is tolerated: nothing
\* raises and every task of the list gets its baseline and schedule entry.
C5_MissingDependencyTolerated ==
    (~InList(Deps) /\ IsAcyclic(Deps)) =>
        /\ pc # "raised"
        /\ pc = "baseline" =>
             \A t \in TaskIds(tasks) : t \in DOMAIN info /\ DOMAIN info[t] = BaselineKeys
        /\ pc = "done" => DOMAIN schedule = TaskIds(tasks)

\* C6: for an acyclic list with every dependency in the list, the topological
\* order holds every task id exactly once and every dependency before its task.
C6_TopologicalSoundness ==
    (pc # "request" /\ WellFormed) =>
        /\ Len(order) = Len(tasks)
        /\ Range(order) = TaskIds(tasks)
        /\ \A t \in TaskIds(tasks) : \A d \in Deps[t] : PosIn(order, d) < PosIn(order, t)

C6_Witness ==
    /\ pc = "forward"
    /\ WellFormed
    /\ Len(tasks) >= 3
    /\ order # IdList(tasks)
    /\ \E t \in TaskIds(tasks) : Cardinality(Deps[t]) >= 2

\* C7: for an acyclic list the forward pass ends without raising with
\* ES(t) = max EF(d) over the dependencies d of t (0 without dependencies),
\* EF(t) = ES(t) + duration(t) with an unknown duration as 0, and ES(t) <= EF(t).
C7_ForwardPass ==
    WellFormed =>
        /\ pc # "raised"
        /\ pc \in {"backward", "baseline"} =>
             \A t \in TaskIds(tasks) :
                /\ info[t].es = IF Deps[t] = {} THEN 0
                                ELSE SetMax({info[d].ef : d \in Deps[t]})
                /\ info[t].ef = info[t].es + (IF TaskOf(tasks, t).duration_hours = NoHours
                                              THEN 0 ELSE TaskOf(tasks, t).duration_hours[1])
                /\ info[t].es <= info[t].ef

C7_Witness ==
    /\ pc = "baseline"
    /\ WellFormed
    /\ \E t \in TaskIds(tasks) : \E d, e \in Deps[t] :
          /\ info[d].ef < info[e].ef
          /\ info[t].es = info[e].ef
          /\ TaskOf(tasks, t).duration_hours = NoHours

\* C8: for an acyclic list the backward pass gives LF(t) = min LS(s) over the
\* tasks s that depend on t (the project finish max EF when there is none),
\* LS(t) = LF(t) - duration(t), LS(t) <= LF(t), and when t is processed every
\* task that depends on t has its LS.
C8_BackwardPass ==
    WellFormed =>
        /\ (pc = "backward" /\ k <= Len(order)) =>
              \A s \in Successors(Reverse(order)[k]) : "ls" \in DOMAIN info[s]
        /\ pc \in {"backward", "baseline"} =>
              proj_finish = SetMax({0} \cup {info[t].ef : t \in TaskIds(tasks)})
        /\ pc = "baseline" =>
              \A t \in TaskIds(tasks) :
                /\ info[t].lf = IF Successors(t) = {} THEN proj_finish
                                ELSE SetMin({info[s].ls : s \in Successors(t)})
                /\ info[t].ls = info[t].lf - info[t].duration
                /\ info[t].ls <= info[t].lf

C8_Witness ==
    /\ pc = "baseline"
    /\ WellFormed
    /\ \E t \in TaskIds(tasks) : \E r, s \in Successors(t) :
          /\ info[r].ls < info[s].ls
          /\ info[t].lf = info[r].ls
          /\ info[t].lf < proj_finish

\* C9: whenever the pooled search is about to iterate, some interval of the
\* task's category finishes strictly after the current start, so the iteration
\* moves start to a later, existing finish time; this holds for every capacity,
\* 0 included.
C9_SearchAdvances ==
    Searching =>
        LET finishes == Finishes(scheduled, CategoryOf(CurrentTask), start)
        IN  finishes # {} /\ SetMin(finishes) > start

C9_Witness ==
    /\ pc = "search"
    /\ start > est
    /\ CategoryOf(CurrentTask) \in DOMAIN capacity_by_category
    /\ capacity_by_category[CategoryOf(CurrentTask)] = 0

\* C10: every later request on the same task list, mode and capacities returns
\* the baseline and the schedule that the first request returned.
C10_Deterministic ==
    run >= 2 =>
        /\ pc = "baseline" => info = first.info
        /\ pc = "done" => info = first.info /\ schedule = first.schedule

C10_Witness ==
    /\ run = 2
    /\ pc = "done"
    /\ \E t \in TaskIds(tasks) :
          /\ \E d, e \in Deps[t] : info[d].ef < info[e].ef
          /\ schedule[t].start > info[t].es

\* C11: the returned schedule has exactly one entry per task of the list,
\* every entry has finish = start + duration, and a task whose duration_hours
\* is None has duration 0 in the baseline and in the schedule.
C11_EntryPerTask ==
    pc = "done" =>
        /\ DOMAIN schedule = TaskIds(tasks)
        /\ Cardinality(DOMAIN schedule) = Len(tasks)
        /\ \A t \in DOMAIN schedule :
              /\ schedule[t].finish = schedule[t].start + schedule[t].duration
              /\ TaskOf(tasks, t).duration_hours = NoHours =>
                    schedule[t].duration = 0 /\ info[t].duration = 0

C11_Witness ==
    /\ pc = "done"
    /\ Len(tasks) >= 3
    /\ \E t, u \in DOMAIN schedule :
          /\ TaskOf(tasks, t).duration_hours = NoHours
          /\ schedule[t].start > 0
          /\ TaskOf(tasks, u).duration_hours # NoHours
          /\ schedule[u].start > info[u].es

\* the dependency-derived earliest time of task t against the entries made so
\* far: its baseline ES, the finish of each dependency that has an entry, the
\* baseline EF of each dependency that has none
EarliestTime(t) ==
    SetMax({info[t.id].es} \cup
           {IF d \in DOMAIN schedule THEN schedule[d].finish ELSE info[d].ef :
                d \in t.dependencies})

\* C12: in both modes the entry made for a task with neither crew_code nor
\* crew_category starts exactly at its dependency-derived earliest time, and
\* the entry made for any task starts no earlier than that time.
C12_StartsAtEarliest ==
    [][(pc \in {"place", "search"} /\ pc' = "level") =>
          LET t == CurrentTask
          IN  /\ t.id \in DOMAIN schedule'
              /\ schedule'[t.id].start >= EarliestTime(t)
              /\ ~HasResource(t) => schedule'[t.id].start = EarliestTime(t)]_vars

C12_Witness ==
    /\ pc = "level"
    /\ k > 2
    /\ LET t == TaskOf(tasks, level_order[k - 1])
       IN  /\ ~HasResource(t)
           /\ \E d \in t.dependencies \cap DOMAIN schedule : schedule[d].finish > info[d].ef
           /\ schedule[t.id].start > info[t.id].es
           /\ \E c \in DOMAIN code_busy_until : code_busy_until[c] > schedule[t.id].start

\* the entries made so far for resource-bearing tasks that use crew code c
BearersOfCode(c) ==
    {t \in DOMAIN schedule :
        HasResource(TaskOf(tasks, t)) /\ CodeOf(TaskOf(tasks, t)) = c}

\* the entries made so far for resource-bearing tasks of category cat
BearersOfCategory(cat) ==
    {t \in DOMAIN schedule :
        HasResource(TaskOf(tasks, t)) /\ CategoryOf(TaskOf(tasks, t)) = cat}

\* C13: within one run the resource bookkeeping is changed only by the tasks
\* that bear the resource.  In exact mode the next-available time of a crew
\* code (the fallback code included) is set only by tasks using that code and
\* never decreases, so it is the latest finish of those tasks; in pooled mode
\* the intervals held against a category (the sentinel included) are those of
\* the resource-bearing tasks of that category and no others.
C13_BookkeepingByBearers ==
    /\ ~pool_by_category =>
          \A c \in DOMAIN code_busy_until :
              /\ BearersOfCode(c) # {}
              /\ code_busy_until[c] = SetMax({schedule[t].finish : t \in BearersOfCode(c)})
    /\ pool_by_category =>
          \A cat \in {"A", UNSPEC} :
              Cardinality({j \in 1..Len(scheduled) : scheduled[j].cat = cat})
                  = Cardinality(BearersOfCategory(cat))

====
